---------------------------- MODULE Spec2Model ----------------------------
(***************************************************************************)
(* SchemaService (src/SchemaService.js): a registry that keeps, per sheet, *)
(* a set of schema versions (ordered field -> header mappings) and an      *)
(* active-version pointer, with the read operations getSchema, getHeaders, *)
(* mapRowToObject, detectSchemaChanges and the mutators addField and       *)
(* setVersion.                                                             *)
(*                                                                         *)
(* Encoding of JavaScript values:                                          *)
(*   - a property read that may yield undefined is an option: <<>> is      *)
(*     undefined and <<v>> is the value v;                                 *)
(*   - a plain object with string keys in insertion order (a schema) is a  *)
(*     sequence of <<key, value>> pairs with pairwise distinct keys;       *)
(*   - an object used only as a lookup table (schemas, schemas[sheet],     *)
(*     currentVersions, reverse, mappedData) is a function on its keys;    *)
(*   - a header label is a sequence of tokens, each token either the       *)
(*     white-space token " " or a word without white space, so that        *)
(*     String.prototype.trim is computed and not assumed;                  *)
(*   - the non-ASCII labels of the first sheet are written as ASCII words  *)
(*     (zh_...), one word per run of non-blank characters.                 *)
(* Sheet, version and field identifiers range over non-empty strings that  *)
(* are neither array indices nor names inherited from Object.prototype.    *)
(***************************************************************************)
EXTENDS Naturals, Sequences, FiniteSets, TLC

VARIABLES
    schemas,          \* this.schemas: sheet -> version -> schema
    currentVersions,  \* this.currentVersions: sheet -> version
    EventBus,         \* whether the global EventBus is defined
    lastCall,         \* the most recent call: operation, arguments, outcome
    calls,            \* number of calls made so far
    activeHeaders     \* history: sheet -> version -> the headers the sheet
                      \* had when the version was last its active version

vars == <<schemas, currentVersions, EventBus, lastCall, calls, activeHeaders>>

\* Bounds of the exploration.
MaxCalls == 3
MaxHeaders == 2
MaxRow == 2

undefined == <<>>
Some(v) == <<v>>

\* obj[key] of JavaScript for an object modelled as a function.
Prop(obj, key) == IF key \in DOMAIN obj THEN Some(obj[key]) ELSE undefined

\* obj[key] = value of JavaScript for an object modelled as a function.
SetProp(obj, key, value) ==
    [k \in DOMAIN obj \cup {key} |-> IF k = key THEN value ELSE obj[k]]

----------------------------------------------------------------------------
\* Configuration (Config.js is not part of the sources): the three sheet
\* names and the initially active version of each.
SHEET_NAME == "MetaLog"
DAILY_SHEET == "DailyReport"
BEHAVIOR_SHEET == "BehaviorScores"
SCHEMA_VERSIONS == [MetaLog |-> "v1", DailyReport |-> "v1", BehaviorScores |-> "v1"]

InitialSchemas ==
    (SHEET_NAME :> ("v1" :> <<
        <<"timestamp",    <<"Timestamp">> >>,
        <<"behaviors",    <<"zh_behaviors">> >>,
        <<"sleepStart",   <<"zh_sleepStart">> >>,
        <<"sleepEnd",     <<"zh_sleepEnd">> >>,
        <<"sleepPlanned", <<"zh_sleepPlanned">> >>,
        <<"sleepQuality", <<"zh_sleepQuality">> >>,
        <<"mood",         <<"zh_mood">> >>,
        <<"energy",       <<"zh_energy">> >>,
        <<"note",         <<"zh_note">> >>,
        <<"weight",       <<"zh_weight">> >>,
        <<"screenTime",   <<"zh_screenTime">> >>,
        <<"topApps",      <<"zh_topApps", " ", "App">> >> >>))
    @@
    (DAILY_SHEET :> ("v1" :> <<
        <<"timestamp",            <<"Report", " ", "Generated">> >>,
        <<"date",                 <<"Date">> >>,
        <<"analysis",             <<"AI", " ", "Analysis">> >>,
        <<"behaviorTotal",        <<"Behavior", " ", "Total">> >>,
        <<"behaviorPositive",     <<"Behavior", " ", "Positive">> >>,
        <<"behaviorNegative",     <<"Behavior", " ", "Negative">> >>,
        <<"behaviorRaw",          <<"Behavior", " ", "Raw">> >>,
        <<"behaviorGoal",         <<"Behavior", " ", "Goal">> >>,
        <<"sleepTotal",           <<"Sleep", " ", "Total">> >>,
        <<"sleepDuration",        <<"Sleep", " ", "Duration">> >>,
        <<"sleepQuality",         <<"Sleep", " ", "Quality">> >>,
        <<"sleepRegularity",      <<"Sleep", " ", "Regularity">> >>,
        <<"behaviorScoreVersion", <<"Behavior", " ", "Score", " ", "Version">> >>,
        <<"sleepScoreVersion",    <<"Sleep", " ", "Score", " ", "Version">> >> >>))
    @@
    (BEHAVIOR_SHEET :> ("v1" :> <<
        <<"behavior",    <<"Behavior">> >>,
        <<"score",       <<"Score">> >>,
        <<"category",    <<"Category">> >>,
        <<"lastUpdated", <<"Last", " ", "Updated">> >> >>))

InitialVersions ==
    (SHEET_NAME :> SCHEMA_VERSIONS.MetaLog)
    @@ (DAILY_SHEET :> SCHEMA_VERSIONS.DailyReport)
    @@ (BEHAVIOR_SHEET :> SCHEMA_VERSIONS.BehaviorScores)

----------------------------------------------------------------------------
\* Argument domains of the calls.
SheetArgs == {SHEET_NAME, DAILY_SHEET, BEHAVIOR_SHEET, "nope"}
FieldArgs == {"score", "extra"}
HeaderArgs == {<<"Score">>, <<" ", "New", " ">>}
VersionArgs == {"v1", "v2"}

----------------------------------------------------------------------------
\* Plain-object helpers (a schema is a sequence of <<key, value>> pairs).
Values(obj) == [i \in 1..Len(obj) |-> obj[i][2]]
HasKey(obj, key) == \E i \in 1..Len(obj) : obj[i][1] = key

\* SpreadWith that always appends the pair, also when key is already a key.
SpreadWithAppending(source, key, value) ==
    Append(IF source = undefined THEN <<>> ELSE source[1], <<key, value>>)

\* { ...source, [key]: value }: the own properties of source in order (none
\* when source is undefined), then key set to value: in place when it is
\* already a key, appended otherwise.
SpreadWith(source, key, value) ==
    LET copy == IF source = undefined THEN <<>> ELSE source[1]
    IN  IF HasKey(copy, key)
        THEN [i \in 1..Len(copy) |->
                 IF copy[i][1] = key THEN <<key, value>> ELSE copy[i]]
        ELSE Append(copy, <<key, value>>)

\* !x of JavaScript for an optional string.
Falsy(x) == x = undefined \/ x = Some("")

----------------------------------------------------------------------------
\* Outcome of a call: threw is "none" or the thrown error, ret the value
\* returned (undefined for a void function or a throw), emitted the calls
\* made to EventBus.emit.
Returned(value) == [threw |-> "none", ret |-> value]
Threw(error) == [threw |-> error, ret |-> undefined]

ErrSchemaNotFound == "Schema not found for sheet"
ErrSheetNotFound == "Sheet schema not found"
ErrVersionNotFound == "Schema version not found for sheet"
ErrTypeError == "TypeError"
ErrEmit == "EventBus.emit threw"

\* getSchema without its guard: the lookup result is returned as it is.
getSchemaUnguarded(sheetName) ==
    LET version == Prop(currentVersions, sheetName)
        sheet == Prop(schemas, sheetName)
    IN  Returned(IF version = undefined \/ sheet = undefined THEN undefined
                 ELSE Prop(sheet[1], version[1]))

getSchema(sheetName) ==
    LET version == Prop(currentVersions, sheetName)
    IN  IF Falsy(version) \/ Prop(schemas, sheetName) = undefined
        THEN Threw(ErrSchemaNotFound)
        ELSE Returned(Prop(schemas[sheetName], version[1]))

\* Object.values throws a TypeError on undefined.
getHeaders(sheetName) ==
    LET schema == getSchema(sheetName)
    IN  IF schema.threw # "none" THEN schema
        ELSE IF schema.ret = undefined THEN Threw(ErrTypeError)
        ELSE Returned(Some(Values(schema.ret[1])))

----------------------------------------------------------------------------
Init ==
    /\ schemas = InitialSchemas
    /\ currentVersions = InitialVersions
    /\ EventBus \in {"undefined", "defined"}
    /\ lastCall = [op |-> "none"]
    /\ calls = 0
    /\ activeHeaders =
         [s \in DOMAIN InitialSchemas |->
             [v \in {InitialVersions[s]} |-> Values(InitialSchemas[s][v])]]

\* The value stored by addField under newVersion.
addFieldSchema(sheetName, fieldName, headerName) ==
    LET currentVersion == Prop(currentVersions, sheetName)
        currentSchema ==
            IF currentVersion = undefined THEN undefined
            ELSE Prop(schemas[sheetName], currentVersion[1])
    IN  SpreadWith(currentSchema, fieldName, headerName)

\* An addField that stores the new schema under newVersion in every sheet.
addFieldStoreEverywhere(sheetName, fieldName, headerName, newVersion) ==
    [s \in DOMAIN schemas |->
        SetProp(schemas[s], newVersion,
                addFieldSchema(sheetName, fieldName, headerName))]

\* this.schemas after the assignment of addField.
addFieldStore(sheetName, fieldName, headerName, newVersion) ==
    [schemas EXCEPT ![sheetName] =
        SetProp(@, newVersion, addFieldSchema(sheetName, fieldName, headerName))]

\* The payload of the SCHEMA_UPDATED event.
SchemaUpdated(sheetName, fieldName, newVersion) ==
    [event |-> "SCHEMA_UPDATED", sheet |-> sheetName,
     oldVersion |-> Prop(currentVersions, sheetName),
     newVersion |-> newVersion, added |-> fieldName]

addField(sheetName, fieldName, headerName, newVersion) ==
    LET args == [sheetName |-> sheetName, fieldName |-> fieldName,
                 headerName |-> headerName, newVersion |-> newVersion]
    IN
    /\ calls' = calls + 1
    /\ UNCHANGED <<currentVersions, EventBus>>
    /\ IF Prop(schemas, sheetName) = undefined
       THEN /\ UNCHANGED schemas
            /\ lastCall' = [op |-> "addField", args |-> args,
                            threw |-> ErrSheetNotFound, emitted |-> <<>>]
       ELSE /\ schemas' = addFieldStore(sheetName, fieldName, headerName, newVersion)
            /\ IF EventBus = "undefined"
               THEN lastCall' = [op |-> "addField", args |-> args,
                                 threw |-> "none", emitted |-> <<>>]
               ELSE \E emitThrows \in BOOLEAN :
                      lastCall' = [op |-> "addField", args |-> args,
                                   threw |-> IF emitThrows THEN ErrEmit ELSE "none",
                                   emitted |-> <<SchemaUpdated(sheetName, fieldName,
                                                               newVersion)>>]

\* setVersionFound without the check of the version.
setVersionFoundSheetOnly(sheetName, version) ==
    Prop(schemas, sheetName) # undefined

\* The guard of setVersion: the sheet and the version must be there.
setVersionFound(sheetName, version) ==
    /\ Prop(schemas, sheetName) # undefined
    /\ Prop(schemas[sheetName], version) # undefined

\* setVersion that creates the version (as an empty schema) when it is missing.
setVersionCreating(sheetName, version) ==
    LET args == [sheetName |-> sheetName, version |-> version]
    IN
    /\ calls' = calls + 1
    /\ UNCHANGED EventBus
    /\ IF Prop(schemas, sheetName) = undefined
       THEN /\ UNCHANGED <<schemas, currentVersions>>
            /\ lastCall' = [op |-> "setVersion", args |-> args,
                            threw |-> ErrVersionNotFound, emitted |-> <<>>]
       ELSE /\ schemas' = IF version \in DOMAIN schemas[sheetName] THEN schemas
                          ELSE [schemas EXCEPT ![sheetName] = SetProp(@, version, <<>>)]
            /\ currentVersions' = SetProp(currentVersions, sheetName, version)
            /\ lastCall' = [op |-> "setVersion", args |-> args,
                            threw |-> "none", emitted |-> <<>>]

setVersion(sheetName, version) ==
    LET args == [sheetName |-> sheetName, version |-> version]
    IN
    /\ calls' = calls + 1
    /\ UNCHANGED <<schemas, EventBus>>
    /\ IF ~setVersionFound(sheetName, version)
       THEN /\ UNCHANGED currentVersions
            /\ lastCall' = [op |-> "setVersion", args |-> args,
                            threw |-> ErrVersionNotFound, emitted |-> <<>>]
       ELSE /\ currentVersions' = SetProp(currentVersions, sheetName, version)
            /\ lastCall' = [op |-> "setVersion", args |-> args,
                            threw |-> "none", emitted |-> <<>>]

\* A read that reloads the schemas of the object literal when it fails.
ReadReloading(op, args, outcome) ==
    /\ calls' = calls + 1
    /\ schemas' = IF outcome.threw # "none" THEN InitialSchemas ELSE schemas
    /\ UNCHANGED <<currentVersions, EventBus>>
    /\ lastCall' = [op |-> op, args |-> args, threw |-> outcome.threw,
                    ret |-> outcome.ret, emitted |-> <<>>]

\* A read operation: the registry is untouched, the outcome is recorded.
Read(op, args, outcome) ==
    /\ calls' = calls + 1
    /\ UNCHANGED <<schemas, currentVersions, EventBus>>
    /\ lastCall' = [op |-> op, args |-> args, threw |-> outcome.threw,
                    ret |-> outcome.ret, emitted |-> <<>>]

CallGetSchema(sheetName) ==
    Read("getSchema", [sheetName |-> sheetName], getSchema(sheetName))

CallGetHeaders(sheetName) ==
    Read("getHeaders", [sheetName |-> sheetName], getHeaders(sheetName))

\* The history kept with every call: for every sheet, the headers that its
\* active schema has after the call, under the version that is active.
Remember ==
    activeHeaders' =
        [s \in DOMAIN activeHeaders |->
            IF schemas'[s] = schemas[s] /\ currentVersions'[s] = currentVersions[s]
            THEN activeHeaders[s]
            ELSE LET schema == Prop(schemas'[s], currentVersions'[s])
                 IN  IF schema = undefined THEN activeHeaders[s]
                     ELSE SetProp(activeHeaders[s], currentVersions'[s],
                                  Values(schema[1]))]

\* One call, in a run of at most bound calls.
Calls(bound) ==
    \/ \E s \in SheetArgs, f \in FieldArgs, h \in HeaderArgs, v \in VersionArgs :
          calls < bound /\ addField(s, f, h, v) /\ Remember
    \/ \E s \in SheetArgs, v \in VersionArgs :
          calls < bound /\ setVersion(s, v) /\ Remember
    \/ \E s \in SheetArgs : calls < bound /\ CallGetSchema(s) /\ Remember
    \/ \E s \in SheetArgs : calls < bound /\ CallGetHeaders(s) /\ Remember

Next == Calls(MaxCalls)

Spec == Init /\ [][Next]_vars

\* Runs that are one call longer: a version is created, made active, the
\* first version is written again and made active again.
SwitchCalls == MaxCalls + 1
NextSwitch == Calls(SwitchCalls)
SpecSwitch == Init /\ [][NextSwitch]_vars

----------------------------------------------------------------------------
\* The operations that take header and row arrays.

\* String.prototype.trim on a label: the white-space tokens at both ends go.
IsWhiteSpace(token) == token = " "

\* trim that returns the label as it is.
trimNothing(label) == label

RECURSIVE trimStart(_)
trimStart(label) ==
    IF label # <<>> /\ IsWhiteSpace(Head(label)) THEN trimStart(Tail(label)) ELSE label

RECURSIVE trimEnd(_)
trimEnd(label) ==
    IF label # <<>> /\ IsWhiteSpace(label[Len(label)])
    THEN trimEnd(SubSeq(label, 1, Len(label) - 1))
    ELSE label

trim(label) == trimEnd(trimStart(label))

\* The forEach of _getReverseSchema: reverse[header] = field, entry by entry.
RECURSIVE ReverseEntries(_, _)
ReverseEntries(entries, reverse) ==
    IF entries = <<>> THEN reverse
    ELSE ReverseEntries(Tail(entries),
                        SetProp(reverse, Head(entries)[2], Head(entries)[1]))

_getReverseSchema(schema) ==
    IF schema = undefined THEN <<>> ELSE ReverseEntries(schema[1], <<>>)

\* rowData[index], with the index counted from 1.
RowAt(rowData, index) ==
    IF index \in 1..Len(rowData) THEN rowData[index] ELSE undefined

\* The forEach of a mapRowToObject that keeps the first value of a field.
RECURSIVE MapHeadersKeepingFirst(_, _, _, _, _)
MapHeadersKeepingFirst(reverseSchema, headers, rowData, index, mappedData) ==
    IF index > Len(headers) THEN mappedData
    ELSE LET fieldName == Prop(reverseSchema, trim(headers[index]))
             value == RowAt(rowData, index)
         IN  MapHeadersKeepingFirst(reverseSchema, headers, rowData, index + 1,
                        IF /\ ~Falsy(fieldName)
                           /\ value # undefined
                           /\ Prop(mappedData, fieldName[1]) = undefined
                        THEN SetProp(mappedData, fieldName[1], value[1])
                        ELSE mappedData)

\* The forEach of mapRowToObject from position index on.
RECURSIVE MapHeaders(_, _, _, _, _)
MapHeaders(reverseSchema, headers, rowData, index, mappedData) ==
    IF index > Len(headers) THEN mappedData
    ELSE LET fieldName == Prop(reverseSchema, trim(headers[index]))
             value == RowAt(rowData, index)
         IN  MapHeaders(reverseSchema, headers, rowData, index + 1,
                        IF ~Falsy(fieldName) /\ value # undefined
                        THEN SetProp(mappedData, fieldName[1], value[1])
                        ELSE mappedData)

\* mapRowToObject that maps nothing when there is no schema to map with.
mapRowToObjectLenient(sheetName, headers, rowData) ==
    LET schema == getSchema(sheetName)
    IN  IF schema.threw # "none" THEN Returned(Some(<<>>))
        ELSE Returned(Some(MapHeaders(_getReverseSchema(schema.ret),
                                      headers, rowData, 1, <<>>)))

mapRowToObject(sheetName, headers, rowData) ==
    LET schema == getSchema(sheetName)
    IN  IF schema.threw # "none" THEN schema
        ELSE Returned(Some(MapHeaders(_getReverseSchema(schema.ret),
                                      headers, rowData, 1, <<>>)))

\* detectSchemaChanges that reports the extra headers trimmed.
detectSchemaChangesTrimmedExtra(sheetName, actualHeaders) ==
    LET expected == getHeaders(sheetName)
    IN  IF expected.threw # "none" THEN expected
        ELSE LET expectedHeaders == expected.ret[1]
                 actualSet == {trim(actualHeaders[i]) : i \in 1..Len(actualHeaders)}
                 expectedSet == {expectedHeaders[i] : i \in 1..Len(expectedHeaders)}
                 trimmedHeaders == [i \in 1..Len(actualHeaders) |-> trim(actualHeaders[i])]
                 NotInActual(h) == h \notin actualSet
                 NotInExpected(h) == h \notin expectedSet
             IN  Returned(Some(
                    [missing |-> SelectSeq(expectedHeaders, NotInActual),
                     extra |-> SelectSeq(trimmedHeaders, NotInExpected),
                     hasChanges |->
                        \/ Cardinality(actualSet) # Cardinality(expectedSet)
                        \/ \E h \in actualSet : h \notin expectedSet]))

\* detectSchemaChanges that compares the lengths of the two arrays.
detectSchemaChangesByLength(sheetName, actualHeaders) ==
    LET expected == getHeaders(sheetName)
    IN  IF expected.threw # "none" THEN expected
        ELSE LET expectedHeaders == expected.ret[1]
                 actualSet == {trim(actualHeaders[i]) : i \in 1..Len(actualHeaders)}
                 expectedSet == {expectedHeaders[i] : i \in 1..Len(expectedHeaders)}
                 NotInActual(h) == h \notin actualSet
                 NotInExpected(h) == trim(h) \notin expectedSet
             IN  Returned(Some(
                    [missing |-> SelectSeq(expectedHeaders, NotInActual),
                     extra |-> SelectSeq(actualHeaders, NotInExpected),
                     hasChanges |->
                        \/ Len(actualHeaders) # Len(expectedHeaders)
                        \/ \E h \in actualSet : h \notin expectedSet]))

\* detectSchemaChanges that compares the sizes of the two sets only.
detectSchemaChangesBySize(sheetName, actualHeaders) ==
    LET expected == getHeaders(sheetName)
    IN  IF expected.threw # "none" THEN expected
        ELSE LET expectedHeaders == expected.ret[1]
                 actualSet == {trim(actualHeaders[i]) : i \in 1..Len(actualHeaders)}
                 expectedSet == {expectedHeaders[i] : i \in 1..Len(expectedHeaders)}
                 NotInActual(h) == h \notin actualSet
                 NotInExpected(h) == trim(h) \notin expectedSet
             IN  Returned(Some(
                    [missing |-> SelectSeq(expectedHeaders, NotInActual),
                     extra |-> SelectSeq(actualHeaders, NotInExpected),
                     hasChanges |->
                        Cardinality(actualSet) # Cardinality(expectedSet)]))

detectSchemaChanges(sheetName, actualHeaders) ==
    LET expected == getHeaders(sheetName)
    IN  IF expected.threw # "none" THEN expected
        ELSE LET expectedHeaders == expected.ret[1]
                 actualSet == {trim(actualHeaders[i]) : i \in 1..Len(actualHeaders)}
                 expectedSet == {expectedHeaders[i] : i \in 1..Len(expectedHeaders)}
                 NotInActual(h) == h \notin actualSet
                 NotInExpected(h) == trim(h) \notin expectedSet
             IN  Returned(Some(
                    [missing |-> SelectSeq(expectedHeaders, NotInActual),
                     extra |-> SelectSeq(actualHeaders, NotInExpected),
                     hasChanges |->
                        \/ Cardinality(actualSet) # Cardinality(expectedSet)
                        \/ \E h \in actualSet : h \notin expectedSet]))

\* Argument domains: header arrays and rows up to the bounds.
SeqsUpTo(S, n) == UNION {[1..k -> S] : k \in 0..n}
ActualLabels == {<<"Score">>, <<" ", "Score", " ">>, <<" ", "New", " ">>}
HeadersArgs == SeqsUpTo(ActualLabels, MaxHeaders)
Cells == {undefined, Some(""), Some("a")}
RowArgs == SeqsUpTo(Cells, MaxRow)

\* Header rows as a sheet written from a stored schema has them: the headers
\* of the schema in order, in reverse order, without the last one, with the
\* first one repeated at the end, with an unknown label at the end, and with
\* white space around every label.
ReverseSeq(seq) == [i \in 1..Len(seq) |-> seq[Len(seq) + 1 - i]]
RowVariants(row) ==
    {row, ReverseSeq(row), SubSeq(row, 1, Len(row) - 1), Append(row, row[1]),
     Append(row, <<" ", "New", " ">>),
     [i \in 1..Len(row) |-> <<" ">> \o row[i] \o <<" ">>]}
StoredRows ==
    UNION {RowVariants(Values(schemas[p[1]][p[2]])) :
              p \in {q \in (DOMAIN schemas) \X VersionArgs :
                        q[2] \in DOMAIN schemas[q[1]]}}
ActualHeadersArgs == HeadersArgs \cup StoredRows

CallMapRowToObject(sheetName, headers, rowData) ==
    Read("mapRowToObject",
         [sheetName |-> sheetName, headers |-> headers, rowData |-> rowData],
         mapRowToObject(sheetName, headers, rowData))

CallDetectSchemaChanges(sheetName, actualHeaders) ==
    Read("detectSchemaChanges",
         [sheetName |-> sheetName, actualHeaders |-> actualHeaders],
         detectSchemaChanges(sheetName, actualHeaders))

\* The calls that take arrays are explored as the last call of a run: they
\* leave the registry as it is, so one made earlier leads to no registry that
\* the run does not reach without it.
LastCallNext == calls = MaxCalls - 1

NextReads ==
    \/ Next
    \/ /\ LastCallNext
       /\ \E s \in SheetArgs, hs \in HeadersArgs, row \in RowArgs :
             CallMapRowToObject(s, hs, row) /\ Remember
    \/ /\ LastCallNext
       /\ \E s \in SheetArgs, hs \in ActualHeadersArgs :
             CallDetectSchemaChanges(s, hs) /\ Remember

\* The reads are explored without an event sink, which they never use.
InitReads == Init /\ EventBus = "undefined"

SpecReads == InitReads /\ [][NextReads]_vars

----------------------------------------------------------------------------
\* Vocabulary of the properties.
Sheets == DOMAIN schemas
VersionsOf(sheet) == DOMAIN schemas[sheet]
IsMutator(call) == call.op \in {"addField", "setVersion"}
Succeeded(call) == call.threw = "none"
NotFoundErrors == {ErrSchemaNotFound, ErrSheetNotFound, ErrVersionNotFound}
Elements(seq) == {seq[i] : i \in 1..Len(seq)}

C2_AddFieldKeepsActiveReads ==
    [][/\ \A sheet \in SheetArgs :
            ( /\ lastCall'.op = "addField" /\ Succeeded(lastCall')
              /\ lastCall'.args.sheetName = sheet ) =>
                /\ currentVersions'[sheet] = currentVersions[sheet]
                /\ getHeaders(sheet)' = getHeaders(sheet)
                /\ getSchema(sheet)' = getSchema(sheet)
       /\ \A sheet \in SheetArgs :
            getHeaders(sheet)' # getHeaders(sheet) =>
                /\ lastCall'.op = "setVersion"
                /\ Succeeded(lastCall')
                /\ lastCall'.args.sheetName = sheet]_vars

C6_VersionsAreImmutable ==
    [][\A sheet \in Sheets :
          /\ sheet \in DOMAIN schemas'
          /\ \A v \in VersionsOf(sheet) :
               /\ v \in DOMAIN schemas'[sheet]
               /\ schemas'[sheet][v] = schemas[sheet][v]]_vars

\* C7: a mutator call that fails leaves all version sets, stored schemas and
\* active pointers as they were.
C7_MutatorsAreAllOrNothing ==
    [][(IsMutator(lastCall') /\ ~Succeeded(lastCall')) =>
            /\ schemas' = schemas
            /\ currentVersions' = currentVersions]_vars

\* C8: a successful addField with a sink configured emits exactly one
\* SCHEMA_UPDATED event, carrying the sheet, the version active at the call
\* (still active after it), the new version and the field, when the new
\* version is stored; without a sink it succeeds and emits nothing; a failing
\* addField and any setVersion emit nothing.
C8_OneEventPerSuccessfulAddField ==
    [][/\ (lastCall'.op = "addField" /\ Succeeded(lastCall')) =>
            LET a == lastCall'.args
            IN  IF EventBus = "defined"
                THEN /\ Len(lastCall'.emitted) = 1
                     /\ lastCall'.emitted[1].event = "SCHEMA_UPDATED"
                     /\ lastCall'.emitted[1].sheet = a.sheetName
                     /\ lastCall'.emitted[1].oldVersion = Some(currentVersions[a.sheetName])
                     /\ lastCall'.emitted[1].oldVersion = Some(currentVersions'[a.sheetName])
                     /\ lastCall'.emitted[1].newVersion = a.newVersion
                     /\ lastCall'.emitted[1].added = a.fieldName
                     /\ a.newVersion \in DOMAIN schemas'[a.sheetName]
                ELSE lastCall'.emitted = <<>>
       /\ (lastCall'.op = "addField" /\ ~Succeeded(lastCall')) =>
            lastCall'.emitted = <<>>
       /\ lastCall'.op = "setVersion" => lastCall'.emitted = <<>>]_vars

\* Vocabulary of the properties on header arrays.
ActiveSchema(sheet) == schemas[sheet][currentVersions[sheet]]
DistinctHeaders(schema) ==
    \A i, j \in 1..Len(schema) : schema[i][2] = schema[j][2] => i = j

\* label without the white-space tokens at its two ends.
Trimmed(label) ==
    LET words == {i \in 1..Len(label) : label[i] # " "}
    IN  IF words = {} THEN <<>>
        ELSE SubSeq(label,
                    CHOOSE i \in words : \A k \in words : i <= k,
                    CHOOSE i \in words : \A k \in words : k <= i)

\* The pairs <<field, i>> such that position i of the arrays gives field its
\* value: the trimmed header at i is the header of field in the schema and the
\* row has a value at i.
Given(schema, headers, rowData) ==
    LET trimmed == [i \in 1..Len(headers) |-> Trimmed(headers[i])]
        present == {i \in 1..Len(headers) :
                        i <= Len(rowData) /\ rowData[i] # undefined}
    IN  {<<schema[j][1], i>> : <<j, i>> \in
            {p \in (1..Len(schema)) \X present : schema[p[1]][2] = trimmed[p[2]]}}

\* The result of the last call, a mapRowToObject, is exactly the mapping of
\* the fields that some position gives a value, each to that value.
MapsExactly(schema, headers, rowData) ==
    /\ Succeeded(lastCall)
    /\ lastCall.ret # undefined
    /\ LET mapped == lastCall.ret[1]
           given == Given(schema, headers, rowData)
       IN  /\ DOMAIN mapped = {g[1] : g \in given}
           /\ \A g \in given : mapped[g[1]] = rowData[g[2]][1]

C10_MapRowTrimsBothSides ==
    ( /\ lastCall.op = "mapRowToObject"
      /\ lastCall.args.sheetName \in Sheets
      /\ DistinctHeaders(ActiveSchema(lastCall.args.sheetName)) ) =>
        LET schema == ActiveSchema(lastCall.args.sheetName)
            headers == lastCall.args.headers
            rowData == lastCall.args.rowData
            trimmedSchema == [j \in 1..Len(schema) |->
                                 <<schema[j][1], Trimmed(schema[j][2])>>]
        IN  /\ Succeeded(lastCall)
            /\ \A g \in Given(trimmedSchema, headers, rowData) :
                 g[1] \in DOMAIN lastCall.ret[1]

\* Vocabulary of the properties of detectSchemaChanges.
ExpectedHeaders(sheet) ==
    [i \in 1..Len(ActiveSchema(sheet)) |-> ActiveSchema(sheet)[i][2]]
TrimmedSet(headers) == {Trimmed(headers[i]) : i \in 1..Len(headers)}

\* The elements of seq at the positions idx, in the order of seq.
KeptAt(seq, idx) ==
    [k \in 1..Cardinality(idx) |->
        seq[CHOOSE i \in idx : Cardinality({j \in idx : j <= i}) = k]]

IsDetect(call) == call.op = "detectSchemaChanges" /\ call.args.sheetName \in Sheets

\* C11: for a known sheet detectSchemaChanges returns as missing the expected
\* headers, in schema order, that are not among the trimmed actual headers,
\* and as extra the actual headers, untrimmed and in input order, whose
\* trimmed form is not an expected header.
C11_MissingAndExtra ==
    IsDetect(lastCall) =>
        LET expected == ExpectedHeaders(lastCall.args.sheetName)
            actual == lastCall.args.actualHeaders
            A == TrimmedSet(actual)
            E == Elements(expected)
        IN  /\ Succeeded(lastCall)
            /\ lastCall.ret # undefined
            /\ lastCall.ret[1].missing =
                 KeptAt(expected, {i \in 1..Len(expected) : expected[i] \notin A})
            /\ lastCall.ret[1].extra =
                 KeptAt(actual, {i \in 1..Len(actual) : Trimmed(actual[i]) \notin E})

\* detectSchemaChanges reported three expected headers as missing and one
\* actual header as extra, the latter with its white space; the other actual
\* header matched an expected one after trimming.
C11_Witness ==
    /\ IsDetect(lastCall)
    /\ lastCall.args.sheetName = BEHAVIOR_SHEET
    /\ lastCall.args.actualHeaders = << <<" ", "Score", " ">>, <<" ", "New", " ">> >>
    /\ lastCall.ret[1].missing =
         << <<"Behavior">>, <<"Category">>, <<"Last", " ", "Updated">> >>
    /\ lastCall.ret[1].extra = << <<" ", "New", " ">> >>

\* C12: hasChanges is true exactly when the number of distinct trimmed actual
\* headers differs from the number of distinct expected headers or some
\* trimmed actual header is not expected; it is a function of the set of
\* trimmed actual headers, so it is true exactly when that set differs from
\* the set of expected headers, and the same array reversed or repeated
\* yields the same hasChanges.
C12_HasChangesIsOfTheSet ==
    IsDetect(lastCall) =>
        LET sheet == lastCall.args.sheetName
            actual == lastCall.args.actualHeaders
            A == TrimmedSet(actual)
            E == Elements(ExpectedHeaders(sheet))
            hasChanges == lastCall.ret[1].hasChanges
        IN  /\ hasChanges <=> (\/ Cardinality(A) # Cardinality(E)
                               \/ \E h \in A : h \notin E)
            /\ hasChanges <=> (A # E)
            /\ \A other \in {ReverseSeq(actual), actual \o actual} :
                  detectSchemaChanges(sheet, other).ret[1].hasChanges = hasChanges

\* detectSchemaChanges found no change for an array that is longer than the
\* expected headers are: a header is repeated, the set is the expected one.
C12_Witness ==
    /\ IsDetect(lastCall)
    /\ Len(lastCall.args.actualHeaders) > Len(ExpectedHeaders(lastCall.args.sheetName))
    /\ TrimmedSet(lastCall.args.actualHeaders) =
         Elements(ExpectedHeaders(lastCall.args.sheetName))
    /\ ~lastCall.ret[1].hasChanges

\* C16: hasChanges is true if and only if missing is non-empty or extra is
\* non-empty, for every sheet and every array of actual headers.
C16_HasChangesIffMissingOrExtra ==
    IsDetect(lastCall) =>
        (lastCall.ret[1].hasChanges <=>
            (lastCall.ret[1].missing # <<>> \/ lastCall.ret[1].extra # <<>>))

\* detectSchemaChanges found no change, nothing missing and nothing extra on
\* a sheet whose active schema holds the same header twice, for an array of
\* actual headers with white space around the labels.
C16_Witness ==
    /\ IsDetect(lastCall)
    /\ ~DistinctHeaders(ActiveSchema(lastCall.args.sheetName))
    /\ \E i \in 1..Len(lastCall.args.actualHeaders) :
          Trimmed(lastCall.args.actualHeaders[i]) # lastCall.args.actualHeaders[i]
    /\ ~lastCall.ret[1].hasChanges
    /\ lastCall.ret[1].missing = <<>>
    /\ lastCall.ret[1].extra = <<>>

ReadOps == {"getSchema", "getHeaders", "mapRowToObject", "detectSchemaChanges"}

\* C13: a call of getSchema, getHeaders, mapRowToObject or
\* detectSchemaChanges leaves the stored schemas and the active versions as
\* they were, whether it returns or fails; getHeaders of every sheet yields
\* after the call what it yielded before it, and a getHeaders call that
\* directly follows a getHeaders call on the same sheet has the same outcome.
C13_ReadsChangeNothing ==
    [][lastCall'.op \in ReadOps =>
          /\ schemas' = schemas
          /\ currentVersions' = currentVersions
          /\ \A s \in SheetArgs : getHeaders(s)' = getHeaders(s)
          /\ (/\ lastCall.op = "getHeaders"
              /\ lastCall'.op = "getHeaders"
              /\ lastCall'.args = lastCall.args)
             => (lastCall'.threw = lastCall.threw /\ lastCall'.ret = lastCall.ret)]_vars

\* A read failed in a registry that two mutations had changed before: its
\* stored schemas and its active versions are not the initial ones.
C13_Witness ==
    /\ lastCall.op \in ReadOps
    /\ lastCall.threw = ErrSchemaNotFound
    /\ calls = MaxCalls
    /\ \E s \in Sheets : currentVersions[s] # InitialVersions[s]
    /\ schemas # InitialSchemas

\* C14: the headers of every stored schema are pairwise distinct, in the
\* initial registry and after every sequence of addField and setVersion
\* calls, so that no header is the header of two fields of a schema.
C14_StoredHeadersDistinct ==
    \A s \in Sheets : \A v \in VersionsOf(s) : DistinctHeaders(schemas[s][v])

PositionsOf(headers, label) == {i \in 1..Len(headers) : Trimmed(headers[i]) = label}
PresentAt(rowData, positions) ==
    {i \in positions : i <= Len(rowData) /\ rowData[i] # undefined}
Last(positions) == CHOOSE i \in positions : \A k \in positions : k <= i

\* The field that the reverse lookup gives for a header of the schema: the
\* last field of the schema that has the header.
FieldOfHeader(schema, label) ==
    schema[Last({j \in 1..Len(schema) : schema[j][2] = label})][1]

\* C19: when the header array holds a header of the schema at several
\* positions (after trimming), mapRowToObject gives the field of that header
\* the row value at the last of these positions where the row has a value,
\* gives it nothing when the row has a value at none of them, and the result
\* has fields of the schema as its only keys, each with one value.
C19_RepeatedHeaderLastPresentWins ==
    (lastCall.op = "mapRowToObject" /\ lastCall.args.sheetName \in Sheets) =>
        LET schema == ActiveSchema(lastCall.args.sheetName)
            headers == lastCall.args.headers
            rowData == lastCall.args.rowData
            mapped == lastCall.ret[1]
            repeated == {h \in TrimmedSet(headers) :
                            /\ \E j \in 1..Len(schema) : schema[j][2] = h
                            /\ Cardinality(PositionsOf(headers, h)) >= 2}
        IN  /\ DOMAIN mapped \subseteq {schema[j][1] : j \in 1..Len(schema)}
            /\ \A h \in repeated :
                  LET field == FieldOfHeader(schema, h)
                      present == PresentAt(rowData, PositionsOf(headers, h))
                  IN  IF present = {} THEN field \notin DOMAIN mapped
                      ELSE /\ field \in DOMAIN mapped
                           /\ mapped[field] = rowData[Last(present)][1]

\* mapRowToObject kept the value of the first position of a header that the
\* array holds twice: the row has no value at the second position.
C19_Witness ==
    /\ lastCall.op = "mapRowToObject"
    /\ lastCall.args.sheetName = BEHAVIOR_SHEET
    /\ lastCall.args.headers = << <<"Score">>, <<" ", "Score", " ">> >>
    /\ lastCall.args.rowData = <<Some("a"), undefined>>
    /\ lastCall.ret = Some([score |-> "a"])

\* C17: an addField or setVersion call on a sheet, returning or failing,
\* leaves every other sheet as it was: the sheets are the same, and the
\* versions, the stored schemas, the active version and the outcomes of
\* getSchema and getHeaders (through which mapRowToObject and
\* detectSchemaChanges read the registry) of every other sheet are
\* unchanged; an addField call changes no active version.
C17_MutatorsAffectOneSheet ==
    [][IsMutator(lastCall') =>
          /\ DOMAIN schemas' = DOMAIN schemas
          /\ DOMAIN currentVersions' = DOMAIN currentVersions
          /\ \A other \in Sheets \ {lastCall'.args.sheetName} :
                /\ DOMAIN schemas'[other] = DOMAIN schemas[other]
                /\ schemas'[other] = schemas[other]
                /\ currentVersions'[other] = currentVersions[other]
                /\ getSchema(other)' = getSchema(other)
                /\ getHeaders(other)' = getHeaders(other)
          /\ lastCall'.op = "addField" => currentVersions' = currentVersions]_vars

\* An addField call stored a version in one sheet while another sheet, changed
\* by earlier calls, has two versions and the second one active.
C17_Witness ==
    /\ lastCall.op = "addField"
    /\ Succeeded(lastCall)
    /\ lastCall.args.sheetName = BEHAVIOR_SHEET
    /\ VersionsOf(BEHAVIOR_SHEET) = {"v1", "v2"}
    /\ VersionsOf(DAILY_SHEET) = {"v1", "v2"}
    /\ currentVersions[DAILY_SHEET] = "v2"
    /\ currentVersions[BEHAVIOR_SHEET] = "v1"

\* C18: after a successful setVersion(T, v) getHeaders(T) returns the headers
\* of the schema stored under v; a second setVersion(T, v) changes nothing;
\* and when v was active before and another version since, getHeaders(T)
\* returns the headers it returned when v was last active, whatever addField
\* calls were made in between.
C18_ReadsFollowTheActiveVersion ==
    [][\A T \in Sheets : \A v \in VersionArgs :
          (/\ lastCall'.op = "setVersion"
           /\ Succeeded(lastCall')
           /\ lastCall'.args = [sheetName |-> T, version |-> v])
          => /\ getHeaders(T)' = Returned(Some(Values(schemas[T][v])))
             /\ (lastCall.op = "setVersion" /\ Succeeded(lastCall)
                   /\ lastCall.args = lastCall'.args)
                => (schemas' = schemas /\ currentVersions' = currentVersions)
             /\ (currentVersions[T] # v /\ v \in DOMAIN activeHeaders[T])
                => getHeaders(T)' = Returned(Some(activeHeaders[T][v]))]_vars

=============================================================================
